---- MODULE Spec2Model ----
(***************************************************************************)
(* Model of the tunnel pump scheduler (Junction25): the calibration        *)
(* interpolants of utils/helpers.py, the two recursive forecasters of      *)
(* agents/price_agent.py and agents/inflow_agent.py, the MPC solve of      *)
(* agents/optimization_agent.py and the cycle of main.py.                  *)
(*                                                                         *)
(* Fixed-point units (the code uses floats):                               *)
(*   level   decimetres            (0.5 m = 5, 30 m = 300)                 *)
(*   volume  m3                                                            *)
(*   flow    m3/h, inflow forecast in m3/15min                             *)
(*   price   1e-6 EUR/kWh; a Nord Pool quote in 1e-6 EUR/MWh               *)
(*   time    number of 15-minute steps since an epoch (a Monday 00:00)     *)
(***************************************************************************)
EXTENDS Integers, Sequences, FiniteSets, TLC

VARIABLES
    \* ---- geometry probe (get_level_volume_interpolator and its results)
    g_pc,          \* "init" | "loaded" | "tovolume" | "tolevel"
    g_file,        \* the volume file: [present, rows]
    g_interp,      \* the pair returned (kind "unset" before the call)
    g_msgs,        \* messages printed by get_level_volume_interpolator
    g_x,           \* level handed to volume_of
    g_v,           \* volume_of(g_x)
    g_l            \* level_of(g_v)

VARIABLES
    \* ---- one optimization cycle (main.run_optimization_cycle)
    pc,            \* position in run_optimization_cycle
    data,          \* data/hsy_data.csv as load_and_clean_data returns it
    volume_file,   \* data/tunnel_volume_table.csv: [present, rows]
    current_L1,    \* hist_df['water_level_in_tunnel_l2'].iloc[-1]
    price,         \* what fetch_nordpool_prices did and returned
    inflow,        \* what forecast_inflow did and returned
    optimizer,     \* the OptimizationAgent's fields
    solve,         \* what solve_mpc did: solver outcome, table built, return
    next_action,   \* the first row, when the cycle derived an action
    messages       \* messages the cycle printed

VARIABLES
    \* ---- one call of a recursive forecaster, and a second call on the
    \* same history (forecast_inflow, _forecast_with_ml)
    f_pc,          \* "init" | "loop" | "done"
    f_agent,       \* "inflow" | "price"
    f_n,           \* rows of the cleaned history
    f_t,           \* time of the last history row
    f_reg,         \* the fitted model
    f_weather,     \* what fetch_weather_forecast returned to this call
    f_run,         \* 1 for the first call, 2 for the second
    f_log,         \* the loop so far: appended values, predictions, the
                   \* feature rows fed and last_values after each step
    f_prev         \* the first call's weather and its finished loop

geoVars == <<g_pc, g_file, g_interp, g_msgs, g_x, g_v, g_l>>

cycleVars == <<pc, data, volume_file, current_L1, price, inflow, optimizer,
               solve, next_action, messages>>

fcVars == <<f_pc, f_agent, f_n, f_t, f_reg, f_weather, f_run, f_log, f_prev>>

vars == <<geoVars, cycleVars, fcVars>>

\* ------------------------------------------------------------------ bounds
\* Levels probed lie up to ProbeMargin decimetres outside the table's range.
ProbeMargin == 3
\* n_steps, the horizon H (main.py asks for 96).
Horizon == 4
\* The history holds at most MaxValidRows rows whose lags are all defined.
MaxValidRows == 1

\* --------------------------------------------------------- program constants
\* TUNNEL_CONSTANTS["L1_MIN"] = 0.5 m, in decimetres.
L1_MIN == 5
\* TUNNEL_CONSTANTS["L1_MAX"] = 30.0 m, in decimetres.
L1_MAX == 300
\* Coefficients of the fallback lambda L1: 10000 * L1 + 350 (L1 in metres).
FALLBACK_SLOPE == 10000
FALLBACK_OFFSET == 350
\* TUNNEL_CONSTANTS["TIMESTEP_MINUTES"] and ["TIME_STEPS_PER_HOUR"].
TIMESTEP_MINUTES == 15
TIME_STEPS_PER_HOUR == 4
\* TUNNEL_CONSTANTS["L2_LEVEL"] = 40.0 m, in decimetres.
L2_LEVEL == 400
\* lb and ub of the manipulated variable F2, m3/h.
F2_LB == 100
F2_UB == 10000
\* m.fix(L1, val=0.5, ...): the drawdown target, in decimetres.
DRAWDOWN_TARGET == 5
\* The largest of the lags [1, 4, 24].
MaxLag == 24

\* ------------------------------------------------------------------ helpers
Max(a, b) == IF a >= b THEN a ELSE b

Min(a, b) == IF a <= b THEN a ELSE b

\* ---------------------------------------------------------------- geometry
\* Calibration tables the volume file may hold: rows <<level, volume>>, both
\* columns strictly increasing. The first is the table [(0,0),(30,300000)].
\* Two-row tables of one slope, and three-row tables whose slope changes at
\* a kink (slopes in m3 per decimetre).
Slopes == {500, 1000, 2000}

Tables ==
    { << <<0, 0>>, <<300, 300 * s>> >> : s \in Slopes }
    \cup
    { << <<0, v0>>, <<k, v0 + k * s1>>, <<300, v0 + k * s1 + (300 - k) * s2>> >> :
        v0 \in {0, 1000}, k \in {10, 100}, s1 \in Slopes, s2 \in Slopes }

\* The volume file: absent (FileNotFoundError on read) or holding a table.
MissingFile == [present |-> FALSE, rows |-> <<>>]

VolumeFiles == {MissingFile} \cup {[present |-> TRUE, rows |-> t] : t \in Tables}

ScenarioFile == [present |-> TRUE, rows |-> << <<0, 0>>, <<300, 300000>> >>]

KinkedFile ==
    [present |-> TRUE, rows |-> << <<0, 0>>, <<10, 20000>>, <<300, 310000>> >>]

NoInterp == [kind |-> "unset", vl |-> <<>>, lv |-> <<>>, msgs |-> {}]

\* df_vol.iloc[:, 0] and df_vol.iloc[:, 1] as the (x, y) points of
\* interp1d(level, volume).
PointsLevelVolume(table) == table

\* A wrong inverse: interp1d(level, volume) used for level_of too.
PointsNotSwapped(table) == table

\* The (x, y) points of interp1d(volume, level).
PointsVolumeLevel(table) ==
    [i \in 1..Len(table) |-> <<table[i][2], table[i][1]>>]

\* Index of the segment interp1d uses for x: the one holding x, the first one
\* below the range and the last one above it (fill_value='extrapolate').
Segment(pts, x) ==
    IF x <= pts[1][1] THEN 1
    ELSE IF x >= pts[Len(pts)][1] THEN Len(pts) - 1
    ELSE CHOOSE i \in 1..(Len(pts) - 1) : pts[i][1] <= x /\ x < pts[i + 1][1]

\* interp1d(xs, ys, kind='linear', fill_value='extrapolate')(x).
Interp1d(pts, x) ==
    LET i == Segment(pts, x)
        x0 == pts[i][1]
        y0 == pts[i][2]
        x1 == pts[i + 1][1]
        y1 == pts[i + 1][2]
    IN  y0 + ((y1 - y0) * (x - x0)) \div (x1 - x0)

\* A fallback volume that leaves the offset out.
FallbackVolumeNoOffset(L1) == (FALLBACK_SLOPE * L1) \div 10

\* The fallback lambda V = 10000 * L1 + 350, L1 in decimetres.
FallbackVolume(L1) == (FALLBACK_SLOPE * L1) \div 10 + FALLBACK_OFFSET

\* The fallback lambda L1 = (V - 350) / 10000, result in decimetres.
FallbackLevel(V) == ((V - FALLBACK_OFFSET) * 10) \div FALLBACK_SLOPE

\* get_level_volume_interpolator: the pair (interp_v_l, interp_l_v) and the
\* message it prints. A missing file (FileNotFoundError) gives the lambdas.
GetLevelVolumeInterpolator(file) ==
    IF ~file.present
    THEN [kind |-> "fallback", vl |-> <<>>, lv |-> <<>>,
          msgs |-> {"volume file not found, using simple linear model"}]
    ELSE [kind |-> "table", vl |-> PointsLevelVolume(file.rows),
          lv |-> PointsVolumeLevel(file.rows), msgs |-> {}]

\* interp_v_l(L1): level -> volume.
VolumeOf(interp, L1) ==
    IF interp.kind = "fallback" THEN FallbackVolume(L1)
    ELSE Interp1d(interp.vl, L1)

\* interp_l_v(V): volume -> level.
LevelOf(interp, V) ==
    IF interp.kind = "fallback" THEN FallbackLevel(V)
    ELSE Interp1d(interp.lv, V)

\* Levels a caller may hand to volume_of for a given file.
ProbeLevels(file) ==
    IF ~file.present THEN (0 - ProbeMargin)..(L1_MAX + ProbeMargin)
    ELSE (file.rows[1][1] - ProbeMargin)
            ..(file.rows[Len(file.rows)][1] + ProbeMargin)

InRange(file, x) ==
    /\ file.present
    /\ file.rows[1][1] <= x
    /\ x <= file.rows[Len(file.rows)][1]

\* --------------------------------------------------------------- history
\* Lengths of the cleaned history: empty, too short for any lag, one row
\* short of a first training row, and up to MaxValidRows training rows.
HistLens == {0, 1, MaxLag} \cup ((MaxLag + 1)..(MaxLag + MaxValidRows))

\* Row j (1..n) of the column inflow_to_tunnel_f1, m3/15min.
InflowAt(j) == 100 * j

\* Row j (1..n) of the column electricity_price_1_high.
PriceAt(j) == 5 * j - 30

\* What load_and_clean_data("data/hsy_data.csv") yields: ok = FALSE when it
\* raises; n rows, the last at time t_last, with last tunnel level `level`.
DataFiles ==
    { [ok |-> FALSE, n |-> 0, t_last |-> 0, level |-> 0] }
    \cup
    { [ok |-> TRUE, n |-> n, t_last |-> 95, level |-> l] :
        n \in HistLens, l \in {4, 5, 6, 10} }

\* index.hour and index.dayofweek of a 15-minute time stamp.
Hour(t) == (t \div 4) % 24

DayOfWeek(t) == (t \div 96) % 7

\* pd.date_range(start=last + 15min, periods=n_steps, freq='15min')
FutureIndex(t_last, n_steps) == [i \in 1..n_steps |-> t_last + i]

\* for lag in [1, 4, 24]
Lags == {1, 4, 24}

\* Rows left by dropna() after the shift(lag) columns were added.
ValidRows(n) == {j \in 1..n : \A lag \in Lags : j - lag >= 1}

\* Row whose value is the lag feature `lag` of the last row of the feature
\* table (df[features].iloc[-1]): the target shifted by `lag`.
LastRowLags(n, lag) == n - lag

\* ------------------------------------------------------------- regressor
\* The fitted model: any deterministic function of the feature row.
Regressors == {"lag1", "lag24", "drop", "hourly"}

\* self.model.predict(pd.DataFrame(current_features))[0]
Predict(reg, f) ==
    CASE reg = "lag1" -> f.lag1
      [] reg = "lag24" -> f.lag24
      [] reg = "drop" -> f.lag1 - 300
      [] reg = "hourly" -> 40 * f.hour - 20 - f.dayofweek

\* The inflow is appended unclamped.
NoClamp(x) == x

\* max(0, next_inflow)
Clamp(x) == Max(0, x)

\* for lag in sorted([24, 4, 1], reverse=True): the body of the update loop,
\* run over `order` on the dict last_values (keys: the lags).
RECURSIVE ShiftLags(_, _, _)
ShiftLags(order, lv, next) ==
    IF order = <<>> THEN lv
    ELSE LET lag == Head(order)
             lv2 == IF lag > 1 /\ (lag - 1) \in DOMAIN lv
                    THEN [lv EXCEPT ![lag] = lv[lag - 1]]
                    ELSE IF lag \in DOMAIN lv
                         THEN [lv EXCEPT ![lag] = next]
                         ELSE lv
         IN  ShiftLags(Tail(order), lv2, next)

\* The whole update of last_values after a prediction, inflow agent.
InflowUpdateLags(lv, next) ==
    [ShiftLags(<<24, 4, 1>>, lv, next) EXCEPT ![1] = next]

\* The whole update of last_values after a prediction, price agent.
PriceUpdateLags(lv, next) ==
    [ShiftLags(<<24, 4, 1>>, lv, next) EXCEPT ![1] = next]

\* current_features: the lag entries of last_values and the calendar
\* features of row i of X_pred.
CurrentFeatures(lv, row) ==
    [lag1 |-> lv[1], lag4 |-> lv[4], lag24 |-> lv[24],
     hour |-> row.hour, dayofweek |-> row.dayofweek]

EmptyLog == [out |-> <<>>, raw |-> <<>>, fed |-> <<>>, lags |-> <<>>,
             raised |-> FALSE]

\* for i in range(n_steps) of forecast_inflow, from step i on. X_pred.iloc[i]
\* raises when X_pred has fewer than n_steps rows.
RECURSIVE InflowLoop(_, _, _, _, _, _)
InflowLoop(reg, X_pred, n_steps, lv, i, acc) ==
    IF i > n_steps THEN acc
    ELSE IF i > Len(X_pred) THEN [acc EXCEPT !.raised = TRUE]
    ELSE LET f == CurrentFeatures(lv, X_pred[i])
             next_inflow == Predict(reg, f)
             lv2 == InflowUpdateLags(lv, next_inflow)
         IN  InflowLoop(reg, X_pred, n_steps, lv2, i + 1,
                 [acc EXCEPT !.out = Append(@, Clamp(next_inflow)),
                             !.raw = Append(@, next_inflow),
                             !.fed = Append(@, f),
                             !.lags = Append(@, lv2)])

\* for i in range(n_steps) of _forecast_with_ml, from step i on.
RECURSIVE PriceLoop(_, _, _, _, _, _)
PriceLoop(reg, X_pred, n_steps, lv, i, acc) ==
    IF i > n_steps THEN acc
    ELSE IF i > Len(X_pred) THEN [acc EXCEPT !.raised = TRUE]
    ELSE LET f == CurrentFeatures(lv, X_pred[i])
             next_price == Predict(reg, f)
             lv2 == PriceUpdateLags(lv, next_price)
         IN  PriceLoop(reg, X_pred, n_steps, lv2, i + 1,
                 [acc EXCEPT !.out = Append(@, next_price),
                             !.raw = Append(@, next_price),
                             !.fed = Append(@, f),
                             !.lags = Append(@, lv2)])

\* ------------------------------------------------------------ price agent
\* last_values = df_features[features].iloc[-1].to_dict(), its lag keys.
PriceLastValues(n) ==
    (1 :> PriceAt(LastRowLags(n, 1))) @@ (4 :> PriceAt(LastRowLags(n, 4)))
        @@ (24 :> PriceAt(LastRowLags(n, 24)))

NoForecast ==
    [status |-> "unset", path |-> "none", input |-> "none", reg |-> "none",
     idx |-> <<>>, val |-> <<>>, raw |-> <<>>, fed |-> <<>>, lags |-> <<>>]

\* X_pred of _forecast_with_ml: the forecast index with its calendar columns.
PriceFrame(t_last, n_steps) ==
    [i \in 1..n_steps |->
        [t |-> t_last + i, hour |-> Hour(t_last + i),
         dayofweek |-> DayOfWeek(t_last + i)]]

\* PriceAgent._forecast_with_ml: the constant series when no training row is
\* left, the recursive forecast otherwise (iloc[-1] of an empty history raises).
ForecastWithMl(d, reg, n_steps) ==
    IF ValidRows(d.n) = {}
    THEN IF d.n = 0
         THEN [NoForecast EXCEPT !.status = "raised", !.path = "const"]
         ELSE [NoForecast EXCEPT
                  !.status = "series", !.path = "const",
                  !.idx = FutureIndex(d.t_last, n_steps),
                  !.val = [i \in 1..n_steps |-> PriceAt(d.n)]]
    ELSE LET X_pred == PriceFrame(d.t_last, n_steps)
             last_values == PriceLastValues(d.n)
             log == PriceLoop(reg, X_pred, n_steps, last_values, 1, EmptyLog)
         IN  [status |-> IF log.raised THEN "raised" ELSE "series",
              path |-> "ml", input |-> "none", reg |-> reg,
              idx |-> [i \in 1..Len(X_pred) |-> X_pred[i].t],
              val |-> log.out, raw |-> log.raw, fed |-> log.fed,
              lags |-> log.lags]

\* Quotes a live fetch may deliver: m entries of 15 minutes from time t0, in
\* rising or falling order of their start, values in 1e-6 EUR/MWh.
Quotes(t0, m, order) ==
    [k \in 1..m |->
        LET j == IF order = "asc" THEN k ELSE m + 1 - k
        IN  [start |-> t0 + j - 1, value |-> 1000 * (60 - 35 * j)]]

\* Outcomes of prices_spot.fetch(...): it raises (or the structure check
\* raises ValueError), or it delivers a list of quotes.
LiveFetches(t_last, n_steps) ==
    { [kind |-> "raise", entries |-> <<>>] }
    \cup
    { [kind |-> "data", entries |-> Quotes(t_last + 1 + off, m, order)] :
        off \in {0, 96}, m \in {0, n_steps - 1, n_steps, n_steps + 1},
        order \in {"asc", "desc"} }

\* .sort_index() of the series indexed by the quotes' start times.
SortByStart(entries) ==
    [i \in 1..Len(entries) |->
        LET e == CHOOSE k \in 1..Len(entries) :
                    Cardinality({q \in 1..Len(entries) :
                        entries[q].start < entries[k].start}) = i - 1
        IN  entries[e]]

\* PriceAgent.fetch_nordpool_prices: the first n_steps live quotes converted
\* to EUR/kWh, or the fallback when the fetch raises, delivers nothing
\* (set_index raises KeyError) or delivers fewer than n_steps quotes.
FetchNordpoolPrices(d, live, reg, n_steps) ==
    IF live.kind = "raise" \/ Len(live.entries) = 0
    THEN [ForecastWithMl(d, reg, n_steps) EXCEPT !.input = "raise"]
    ELSE LET prices_15min == SortByStart(live.entries)
             forecast == SubSeq(prices_15min, 1,
                                Min(n_steps, Len(prices_15min)))
         IN  IF Len(forecast) < n_steps
             THEN [ForecastWithMl(d, reg, n_steps) EXCEPT !.input = "short"]
             ELSE [NoForecast EXCEPT
                      !.status = "series", !.path = "live", !.input = "full",
                      !.idx = [i \in 1..Len(forecast) |-> forecast[i].start],
                      !.val = [i \in 1..Len(forecast) |->
                                  forecast[i].value \div 1000]]

\* ----------------------------------------------------------- inflow agent
\* Outcomes of fetch_weather_forecast: the time stamps of the rows it
\* returns and their rain. A failed fetch returns a zero row per step; a
\* fetch that covers the horizon partly returns fewer rows.
WeatherFetches(t_last, n_steps) ==
    { [kind |-> "full", rows |-> {t_last + i : i \in 1..n_steps}, rain |-> 2],
      [kind |-> "partial", rows |-> {t_last + i : i \in 1..(n_steps \div 2)},
       rain |-> 2],
      [kind |-> "failed", rows |-> {t_last + i : i \in 1..n_steps},
       rain |-> 0] }

\* An X_pred built from the weather rows only: steps without a weather row
\* are missing.
InflowFrameJoined(t_last, n_steps, weather) ==
    LET k == Cardinality({i \in 1..n_steps : (t_last + i) \in weather.rows})
    IN  [i \in 1..k |->
            [t |-> t_last + i, hour |-> Hour(t_last + i),
             dayofweek |-> DayOfWeek(t_last + i),
             rain_known |-> TRUE, rain |-> weather.rain]]

\* X_pred of forecast_inflow: n_steps rows on forecast_index; the weather
\* columns are assigned by index, NaN where the weather has no row.
InflowFrame(t_last, n_steps, weather) ==
    [i \in 1..n_steps |->
        [t |-> t_last + i, hour |-> Hour(t_last + i),
         dayofweek |-> DayOfWeek(t_last + i),
         rain_known |-> (t_last + i) \in weather.rows,
         rain |-> IF (t_last + i) \in weather.rows THEN weather.rain ELSE 0]]

\* last_values = df_hist[features].iloc[-1].to_dict(), its lag keys.
InflowLastValues(n) ==
    (1 :> InflowAt(LastRowLags(n, 1))) @@ (4 :> InflowAt(LastRowLags(n, 4)))
        @@ (24 :> InflowAt(LastRowLags(n, 24)))

\* InflowAgent.forecast_inflow. With no training row, model.fit (and
\* df_hist[features].iloc[-1]) raises and nothing catches it.
ForecastInflow(d, weather, reg, n_steps) ==
    IF ValidRows(d.n) = {}
    THEN [NoForecast EXCEPT !.status = "raised", !.input = weather.kind]
    ELSE LET X_pred == InflowFrame(d.t_last, n_steps, weather)
             last_values == InflowLastValues(d.n)
             log == InflowLoop(reg, X_pred, n_steps, last_values, 1, EmptyLog)
         IN  [status |-> IF log.raised THEN "raised" ELSE "series",
              path |-> "ml", input |-> weather.kind, reg |-> reg,
              idx |-> [i \in 1..Len(X_pred) |-> X_pred[i].t],
              val |-> log.out, raw |-> log.raw, fed |-> log.fed,
              lags |-> log.lags]

\* ------------------------------------------------------ optimization agent
NoOptimizer ==
    [L1_start |-> 0, prices |-> <<>>, inflow_15min |-> <<>>, horizon |-> 0,
     interp |-> NoInterp]

\* OptimizationAgent.__init__: the forecasts' values (their index is not
\* kept) and the interpolants.
NewOptimizer(L1, price_forecast, inflow_forecast, horizon, file) ==
    [L1_start |-> L1, prices |-> price_forecast.val,
     inflow_15min |-> inflow_forecast.val, horizon |-> horizon,
     interp |-> GetLevelVolumeInterpolator(file)]

\* The inflow enters the balance without the conversion to m3/h.
F1hNoConversion(inflow_15min) == inflow_15min

\* F1_h = self.inflow_15min * TUNNEL_CONSTANTS["TIME_STEPS_PER_HOUR"]
F1h(inflow_15min) ==
    [k \in 1..Len(inflow_15min) |-> inflow_15min[k] * TIME_STEPS_PER_HOUR]

\* The Intermediate L1: L1_min + (L1_max - L1_min) * (V - V_min) / (V_max - V_min)
LinearLevel(V, V_min, V_max) ==
    L1_MIN + ((L1_MAX - L1_MIN) * (V - V_min)) \div (V_max - V_min)

\* calculate_power(Q, L1) in kW: rho * g * (Q / 3600) * (L2 - L1 + 1) / 0.8 / 1000,
\* with g = 9.81 and L1 in decimetres (the head in decimetres, rounded down
\* to a hundredth of Q * head before the constant factors are applied).
CalculatePower(Q, L1) ==
    (((Q * (L2_LEVEL - L1 + 10)) \div 100) * 981) \div (3600 * 8)

\* The last grid point is not the one fixed.
TerminalPosOffByOne(horizon) == horizon - 1

\* pos = self.horizon - 1 of m.fix, as a 1-based row.
TerminalPos(horizon) == horizon

\* m.fix(L1, val=0.5, pos=...): the linearised level of V equals the target
\* (both sides multiplied by V_max - V_min, so that the equality is exact).
TerminalFixed(V, V_min, V_max) ==
    L1_MIN * (V_max - V_min) + (L1_MAX - L1_MIN) * (V - V_min)
        = DRAWDOWN_TARGET * (V_max - V_min)

\* Changes of volume over one step that the solver's solutions are drawn
\* from, m3.
Deltas == {-2000, -1000, -500, -250, 0, 1000}

\* How the solver collocates V.dt() == F1_t - F2 on m.time: with the flows at
\* the end of a step ("implicit") or at its start ("explicit"). The choice is
\* the library's; the source states the differential equation only.
Collocations == {"implicit", "explicit"}

\* F2 of the step in which V changes by d under inflow F1:
\* d = dt_h * (F1 - F2), dt_h = TIMESTEP_MINUTES / 60.
PumpFlow(F1, d) == F1 - (60 * d) \div TIMESTEP_MINUTES

\* The solutions of the discretised problem that extend `prefix` (V and F2
\* up to some grid point) to `horizon` points. Row 1 is the initial
\* condition: V = V_start and F2 = F1_h[0], as given by value=. Every later
\* V lies in [V_min, V_max] and every later F2 in [lb, ub].
RECURSIVE Extend(_, _, _, _, _, _)
Extend(prefix, horizon, F1, scheme, V_min, V_max) ==
    LET k == Len(prefix.V)
    IN  IF k = horizon
        THEN IF scheme = "implicit" THEN {prefix}
             ELSE {[prefix EXCEPT !.F2 = Append(@, f)] : f \in {F2_LB, F2_UB}}
        ELSE LET ok(d) ==
                    /\ prefix.V[k] + d >= V_min
                    /\ prefix.V[k] + d <= V_max
                    /\ IF scheme = "implicit"
                       THEN PumpFlow(F1[k + 1], d) \in F2_LB..F2_UB
                       ELSE IF k = 1 THEN PumpFlow(F1[1], d) = F1[1]
                            ELSE PumpFlow(F1[k], d) \in F2_LB..F2_UB
                 step(d) ==
                    [V |-> Append(prefix.V, prefix.V[k] + d),
                     F2 |-> IF scheme = "implicit"
                            THEN Append(prefix.F2, PumpFlow(F1[k + 1], d))
                            ELSE Append(prefix.F2, PumpFlow(F1[k], d))]
             IN  UNION { Extend(step(d), horizon, F1, scheme, V_min, V_max) :
                            d \in {e \in Deltas : ok(e)} }

\* The solutions m.solve can deliver for an agent: every point of the
\* discretised constraint set (the objective selects among them).
Solutions(opt, scheme) ==
    LET V_start == VolumeOf(opt.interp, opt.L1_start)
        V_min == VolumeOf(opt.interp, L1_MIN)
        V_max == VolumeOf(opt.interp, L1_MAX)
        F1 == F1h(opt.inflow_15min)
        first == [V |-> <<V_start>>,
                  F2 |-> IF scheme = "implicit" THEN <<F1[1]>> ELSE <<>>]
    IN  { s \in Extend(first, opt.horizon, F1, scheme, V_min, V_max) :
            TerminalFixed(s.V[TerminalPos(opt.horizon)], V_min, V_max) }

NoSolution == [V |-> <<>>, F2 |-> <<>>]

\* The columns of `results`: final_L1_values = L_interp(V.value), V.value,
\* F2.value, P.value, Price_t.value, F1_t.value.
ResultsTable(opt, sol) ==
    LET V_min == VolumeOf(opt.interp, L1_MIN)
        V_max == VolumeOf(opt.interp, L1_MAX)
        F1 == F1h(opt.inflow_15min)
    IN  [k \in 1..Len(sol.V) |->
            [L1 |-> LevelOf(opt.interp, sol.V[k]),
             V |-> sol.V[k],
             F2 |-> sol.F2[k],
             P |-> CalculatePower(sol.F2[k],
                                  LinearLevel(sol.V[k], V_min, V_max)),
             price |-> opt.prices[k],
             inflow |-> F1[k]]]

\* Names bound where solve_mpc evaluates index=inflow_forecast.index: its
\* locals and the globals of agents/optimization_agent.py.
SolveMpcNames ==
    {"self", "m", "L1_min", "L1_max", "V_start", "V_min", "V_max", "F1_h",
     "Price_t", "F1_t", "V", "F2", "L1", "P", "final_L1_values", "results"}
    \cup
    {"np", "pd", "GEKKO", "TUNNEL_CONSTANTS", "get_level_volume_interpolator",
     "calculate_power", "OptimizationAgent"}

NoneValue == [none |-> TRUE, rows |-> <<>>]

\* The handler returns what it has on a failure too.
SolveReturnPartial(outcome, table) == [none |-> FALSE, rows |-> table]

\* What the try block of solve_mpc returns: the table when m.solve raised
\* nothing and the DataFrame could be built; None from the except branch (a
\* solver failure, or the NameError of an unbound name in the index).
SolveReturn(outcome, table) ==
    IF outcome = "ok" /\ "inflow_forecast" \in SolveMpcNames
    THEN [none |-> FALSE, rows |-> table]
    ELSE NoneValue

NoSolve ==
    [outcome |-> "unset", scheme |-> "none", V_min |-> 0, V_max |-> 0,
     table |-> <<>>, ret |-> NoneValue]

NoAction == [set |-> FALSE, row |-> <<>>]

\* ------------------------------------------------------------------ cycle
\* Volume files of the cycle: none, the one-slope table and a kinked one.
CycleVolumeFiles == {MissingFile, ScenarioFile, KinkedFile}

NoWeather == [kind |-> "none", rows |-> {}, rain |-> 0]

NoPrevious == [weather |-> NoWeather, log |-> EmptyLog]

FcIdle ==
    /\ f_pc = "idle"
    /\ f_agent = "none"
    /\ f_n = 0
    /\ f_t = 0
    /\ f_reg = "none"
    /\ f_weather = NoWeather
    /\ f_run = 0
    /\ f_log = EmptyLog
    /\ f_prev = NoPrevious

GeoIdle ==
    /\ g_pc = "idle"
    /\ g_file = MissingFile
    /\ g_interp = NoInterp
    /\ g_msgs = {}
    /\ g_x = 0
    /\ g_v = 0
    /\ g_l = 0

CycleIdle ==
    /\ pc = "idle"
    /\ data = [ok |-> FALSE, n |-> 0, t_last |-> 0, level |-> 0]
    /\ volume_file = MissingFile
    /\ current_L1 = 0
    /\ price = NoForecast
    /\ inflow = NoForecast
    /\ optimizer = NoOptimizer
    /\ solve = NoSolve
    /\ next_action = NoAction
    /\ messages = {}

Init ==
    /\ GeoIdle
    /\ FcIdle
    /\ pc = "start"
    /\ data \in DataFiles
    /\ volume_file \in CycleVolumeFiles
    /\ current_L1 = 0
    /\ price = NoForecast
    /\ inflow = NoForecast
    /\ optimizer = NoOptimizer
    /\ solve = NoSolve
    /\ next_action = NoAction
    /\ messages = {}

\* main.py, step 1: load the history and read the current level; an
\* exception (no file, or iloc[-1] of an empty table) ends the cycle.
LoadData ==
    /\ pc = "start"
    /\ IF data.ok /\ data.n > 0
       THEN /\ current_L1' = data.level
            /\ pc' = "loaded"
            /\ messages' = messages
       ELSE /\ current_L1' = current_L1
            /\ pc' = "done"
            /\ messages' = messages \cup {"Error initializing data"}
    /\ UNCHANGED <<data, volume_file, price, inflow, optimizer, solve,
                   next_action, geoVars, fcVars>>

\* main.py: price_agent.fetch_nordpool_prices(n_steps=96)
FetchPrices ==
    /\ pc = "loaded"
    /\ \E live \in LiveFetches(data.t_last, Horizon) :
       \E reg \in Regressors :
          price' = FetchNordpoolPrices(data, live, reg, Horizon)
    /\ pc' = IF price'.status = "raised" THEN "crashed" ELSE "priced"
    /\ UNCHANGED <<data, volume_file, current_L1, inflow, optimizer, solve,
                   next_action, messages, geoVars, fcVars>>

\* main.py: inflow_agent.forecast_inflow(n_steps=96)
ForecastInflowStep ==
    /\ pc = "priced"
    /\ \E weather \in WeatherFetches(data.t_last, Horizon) :
       \E reg \in Regressors :
          inflow' = ForecastInflow(data, weather, reg, Horizon)
    /\ pc' = IF inflow'.status = "raised" THEN "crashed" ELSE "forecast"
    /\ UNCHANGED <<data, volume_file, current_L1, price, optimizer, solve,
                   next_action, messages, geoVars, fcVars>>

\* main.py: the None check of the forecasts and OptimizationAgent(...) with
\* horizon=len(price_forecast).
BuildOptimizer ==
    /\ pc = "forecast"
    /\ IF price.status # "series" \/ inflow.status # "series"
       THEN /\ pc' = "done"
            /\ optimizer' = optimizer
            /\ messages' = messages \cup {"Forecast failure"}
       ELSE /\ pc' = "built"
            /\ optimizer' = NewOptimizer(current_L1, price, inflow,
                                         Len(price.val), volume_file)
            /\ messages' = messages \cup optimizer'.interp.msgs
    /\ UNCHANGED <<data, volume_file, current_L1, price, inflow, solve,
                   next_action, geoVars, fcVars>>

\* OptimizationAgent.solve_mpc: the solve, the table and the return value.
SolveMpc ==
    /\ pc = "built"
    /\ \E scheme \in Collocations :
          LET sols == Solutions(optimizer, scheme)
          IN  \E outcome \in (IF sols = {} THEN {"infeasible"}
                              ELSE {"ok", "nonconverged"}) :
              \E sol \in (IF outcome = "ok" THEN sols ELSE {NoSolution}) :
                 LET table == ResultsTable(optimizer, sol)
                 IN  solve' = [outcome |-> outcome, scheme |-> scheme,
                               V_min |-> VolumeOf(optimizer.interp, L1_MIN),
                               V_max |-> VolumeOf(optimizer.interp, L1_MAX),
                               table |-> table,
                               ret |-> SolveReturn(outcome, table)]
    /\ messages' = messages \cup
            (IF solve'.ret.none THEN {"MPC Solver failed"} ELSE {})
    /\ pc' = "solved"
    /\ UNCHANGED <<data, volume_file, current_L1, price, inflow, optimizer,
                   next_action, geoVars, fcVars>>

\* main.py, step 4: the first row is the action, when a profile came back.
Report ==
    /\ pc = "solved"
    /\ next_action' = IF ~solve.ret.none
                      THEN [set |-> TRUE, row |-> <<solve.ret.rows[1]>>]
                      ELSE next_action
    /\ pc' = "done"
    /\ UNCHANGED <<data, volume_file, current_L1, price, inflow, optimizer,
                   solve, messages, geoVars, fcVars>>

Next ==
    \/ LoadData
    \/ FetchPrices
    \/ ForecastInflowStep
    \/ BuildOptimizer
    \/ SolveMpc
    \/ Report

Spec == Init /\ [][Next]_vars

\* ------------------------------------------------------------------ claims
Solved == pc \in {"solved", "done"}

SolveOk == Solved /\ solve.outcome = "ok"

SolveFailed == Solved /\ solve.outcome \in {"infeasible", "nonconverged"}

\* C1: when the solve of a feasible problem succeeds, solve_mpc returns a
\* trajectory of H rows and not None; a trajectory is returned only when
\* the solve succeeded.
C1_TrajectoryOnSuccess ==
    /\ SolveOk =>
          /\ ~solve.ret.none
          /\ Len(solve.ret.rows) = optimizer.horizon
    /\ (Solved /\ ~solve.ret.none) => solve.outcome = "ok"

\* C2: when the optimisation fails (infeasible problem or non-convergence),
\* solve_mpc returns None with no partial trajectory, and the cycle derives
\* and applies no pumping action.
C2_FailureNoAction ==
    SolveFailed =>
        /\ solve.ret.none
        /\ solve.ret.rows = <<>>
        /\ ~next_action.set

\* The cycle ran to its end after an infeasible problem: None came back and
\* no action was derived.
C2_Witness ==
    /\ pc = "done"
    /\ solve.outcome = "infeasible"
    /\ solve.ret.none
    /\ ~next_action.set

\* C3: every forecast producer returns a series of exactly H values for a
\* request of n_steps = H: forecast_inflow whatever the weather fetch
\* returns, fetch_nordpool_prices whatever the live fetch does.
C3_ExactlyH ==
    /\ price.status # "unset" =>
          /\ price.status = "series"
          /\ Len(price.val) = Horizon
          /\ Len(price.idx) = Horizon
    /\ inflow.status # "unset" =>
          /\ inflow.status = "series"
          /\ Len(inflow.val) = Horizon
          /\ Len(inflow.idx) = Horizon

\* C4: with zero valid training rows the forecaster does not raise but
\* returns H copies of the last known historical value of the target; for
\* the price forecaster (_forecast_with_ml) and for forecast_inflow.
C4_ConstantFallback ==
    (data.n > 0 /\ ValidRows(data.n) = {}) =>
        /\ (price.status # "unset" /\ price.path # "live") =>
              /\ price.status = "series"
              /\ price.val = [i \in 1..Horizon |-> PriceAt(data.n)]
        /\ inflow.status # "unset" =>
              /\ inflow.status = "series"
              /\ inflow.val = [i \in 1..Horizon |-> InflowAt(data.n)]

\* C5: every value of the series returned by forecast_inflow is >= 0
\* whatever the regressor predicts; the price forecast is the regressor's
\* predictions unclamped and may hold negative values.
C5_InflowNonNegative ==
    /\ inflow.status = "series" =>
          \A i \in 1..Len(inflow.val) :
             /\ inflow.val[i] >= 0
             /\ inflow.val[i] >= inflow.raw[i]
             /\ inflow.raw[i] >= 0 => inflow.val[i] = inflow.raw[i]
    /\ (price.status = "series" /\ price.path = "ml") => price.val = price.raw

\* The regressor predicted a negative inflow, which came out as 0, and the
\* price forecast of the same cycle holds a negative price.
C5_Witness ==
    /\ inflow.status = "series"
    /\ \E i \in 1..Len(inflow.val) : inflow.raw[i] < 0 /\ inflow.val[i] = 0
    /\ price.status = "series"
    /\ price.path = "ml"
    /\ \E i \in 1..Len(price.val) : price.val[i] < 0

BalanceRow(k) == IF solve.scheme = "implicit" THEN k + 1 ELSE k

C14_Aligned ==
    pc \in {"built", "solved", "done"} /\ optimizer # NoOptimizer =>
        /\ Len(optimizer.prices) = Horizon
        /\ Len(optimizer.inflow_15min) = Horizon
        /\ inflow.idx = FutureIndex(data.t_last, Horizon)
        /\ price.idx = inflow.idx

\* --------------------------------------------------------- geometry probe
\* A caller of get_level_volume_interpolator that maps a level to a volume
\* and the volume back to a level.
GeoInit ==
    /\ CycleIdle
    /\ FcIdle
    /\ g_pc = "init"
    /\ g_file \in VolumeFiles
    /\ g_interp = NoInterp
    /\ g_msgs = {}
    /\ g_x = 0
    /\ g_v = 0
    /\ g_l = 0

\* V_interp, L_interp = get_level_volume_interpolator()
GeoLoad ==
    /\ g_pc = "init"
    /\ g_interp' = GetLevelVolumeInterpolator(g_file)
    /\ g_msgs' = g_interp'.msgs
    /\ g_pc' = "loaded"
    /\ UNCHANGED <<g_file, g_x, g_v, g_l, cycleVars, fcVars>>

\* v = volume_of(x)
GeoToVolume ==
    /\ g_pc = "loaded"
    /\ \E x \in ProbeLevels(g_file) :
          /\ g_x' = x
          /\ g_v' = VolumeOf(g_interp, x)
    /\ g_pc' = "tovolume"
    /\ UNCHANGED <<g_file, g_interp, g_msgs, g_l, cycleVars, fcVars>>

\* l = level_of(v)
GeoToLevel ==
    /\ g_pc = "tovolume"
    /\ g_l' = LevelOf(g_interp, g_v)
    /\ g_pc' = "tolevel"
    /\ UNCHANGED <<g_file, g_interp, g_msgs, g_x, g_v, cycleVars, fcVars>>

GeoNext == GeoLoad \/ GeoToVolume \/ GeoToLevel

SpecGeometry == GeoInit /\ [][GeoNext]_vars

\* C9: for every calibration table with strictly increasing levels and
\* volumes, level_of(volume_of(x)) = x for every level x inside the table's
\* range; for the table [(0,0),(30 m,300000)], volume_of(15 m) = 150000 and
\* level_of(150000) = 15 m.
C9_RoundTrip ==
    /\ (g_pc = "tolevel" /\ InRange(g_file, g_x)) => g_l = g_x
    /\ (g_pc \in {"tovolume", "tolevel"}
          /\ g_file = ScenarioFile /\ g_x = 150)
       => g_v = 150000
    /\ (g_pc = "tolevel"
          /\ g_file = ScenarioFile /\ g_v = 150000)
       => g_l = 150

\* A round trip through a table whose slope changes, across the kink.
C9_Witness ==
    /\ g_pc = "tolevel"
    /\ g_file = KinkedFile
    /\ g_x = 150
    /\ g_v = 160000
    /\ g_l = 150

\* C10: with no calibration table, get_level_volume_interpolator does not
\* fail, prints a message flagging the reduced model, and returns
\* volume_of(L) = 10000*L + 350 and level_of(V) = (V - 350)/10000, which are
\* exact inverses.
C10_Fallback ==
    (g_file = MissingFile /\ g_pc # "init") =>
        /\ g_interp.kind = "fallback"
        /\ g_msgs # {}
        /\ g_pc \in {"tovolume", "tolevel"} => g_v = 1000 * g_x + 350
        /\ g_pc = "tolevel" => (g_l = g_x /\ 1000 * g_l = g_v - 350)

\* The fallback pair applied to 2 m and back.
C10_Witness ==
    /\ g_file = MissingFile
    /\ g_pc = "tolevel"
    /\ g_x = 20
    /\ g_v = 20350
    /\ g_l = 20
\* ----------------------------------------------------- recursive forecast
\* One call of forecast_inflow or _forecast_with_ml on a history that leaves
\* training rows, taken step by step through its loop, and a second call on
\* the same history and fitted model.

\* n_steps of the forecaster calls.
ForecastSteps == 26

\* Histories with at least one training row.
FcHistLens ==
    {n \in HistLens \cup {MaxLag + MaxValidRows + 4} : ValidRows(n) # {}}

\* Times of the last history row.
FcTimes == {83, 95}

\* Weather a call may get: fetch_weather_forecast is called by
\* forecast_inflow only.
FcWeather(agent, t_last) ==
    IF agent = "inflow" THEN WeatherFetches(t_last, ForecastSteps)
    ELSE {NoWeather}

\* X_pred of the running call.
FcFrame ==
    IF f_agent = "inflow" THEN InflowFrame(f_t, ForecastSteps, f_weather)
    ELSE PriceFrame(f_t, ForecastSteps)

\* last_values before the next step: the last feature row's lags at first,
\* then what the previous step left.
FcLastValues ==
    IF f_log.lags # <<>> THEN f_log.lags[Len(f_log.lags)]
    ELSE IF f_agent = "inflow" THEN InflowLastValues(f_n)
    ELSE PriceLastValues(f_n)

FcInit ==
    /\ GeoIdle
    /\ CycleIdle
    /\ f_pc = "init"
    /\ f_agent \in {"inflow", "price"}
    /\ f_n \in FcHistLens
    /\ f_t \in FcTimes
    /\ f_reg \in Regressors
    /\ f_weather = NoWeather
    /\ f_run = 0
    /\ f_log = EmptyLog
    /\ f_prev = NoPrevious

\* The call up to its loop: the model is fitted, X_pred is built (with the
\* weather columns, for the inflow) and last_values is read.
FcStart ==
    /\ f_pc = "init"
    /\ \E w \in FcWeather(f_agent, f_t) : f_weather' = w
    /\ f_run' = 1
    /\ f_log' = EmptyLog
    /\ f_pc' = "loop"
    /\ UNCHANGED <<f_agent, f_n, f_t, f_reg, f_prev, geoVars, cycleVars>>

\* One pass of `for i in range(n_steps)`.
FcStep ==
    /\ f_pc = "loop"
    /\ Len(f_log.out) < ForecastSteps
    /\ LET i == Len(f_log.out) + 1
       IN  f_log' = IF f_agent = "inflow"
                    THEN InflowLoop(f_reg, FcFrame, i, FcLastValues, i, f_log)
                    ELSE PriceLoop(f_reg, FcFrame, i, FcLastValues, i, f_log)
    /\ f_pc' = IF f_log'.raised THEN "done" ELSE "loop"
    /\ UNCHANGED <<f_agent, f_n, f_t, f_reg, f_weather, f_run, f_prev,
                   geoVars, cycleVars>>

\* return pd.Series(..., index=X_pred.index)
FcReturn ==
    /\ f_pc = "loop"
    /\ Len(f_log.out) = ForecastSteps
    /\ f_pc' = "done"
    /\ UNCHANGED <<f_agent, f_n, f_t, f_reg, f_weather, f_run, f_log, f_prev,
                   geoVars, cycleVars>>

\* A second call with the same history and fitted model; the weather fetch
\* may return something else.
FcRerun ==
    /\ f_pc = "done"
    /\ f_run = 1
    /\ f_prev' = [weather |-> f_weather, log |-> f_log]
    /\ \E w \in FcWeather(f_agent, f_t) : f_weather' = w
    /\ f_run' = 2
    /\ f_log' = EmptyLog
    /\ f_pc' = "loop"
    /\ UNCHANGED <<f_agent, f_n, f_t, f_reg, geoVars, cycleVars>>

FcNext == FcStart \/ FcStep \/ FcReturn \/ FcRerun

SpecForecast == FcInit /\ [][FcNext]_vars

\* C11: two calls of forecast_inflow with the same fitted regressor, the
\* same initial lag state and the same forecast time stamps return identical
\* series of n_steps values, whatever the weather fetch returned to each
\* (data, partial data or a failure).
C11_WeatherIndependent ==
    (f_agent = "inflow" /\ f_run = 2 /\ f_pc = "done") =>
        /\ ~f_log.raised
        /\ ~f_prev.log.raised
        /\ Len(f_log.out) = ForecastSteps
        /\ f_log.out = f_prev.log.out

\* A second call whose weather fetch failed after a first call that got the
\* full weather, both returning the same series that is not constant.
C11_Witness ==
    /\ f_agent = "inflow"
    /\ f_run = 2
    /\ f_pc = "done"
    /\ f_prev.weather.kind = "full"
    /\ f_weather.kind = "failed"
    /\ f_log.out = f_prev.log.out
    /\ \E i \in 1..Len(f_log.out) : f_log.out[i] # f_log.out[1]
\* Row j of the target column of the running call's history.
TargetAt(j) == IF f_agent = "inflow" THEN InflowAt(j) ELSE PriceAt(j)

\* The lag feature `lag` of a feature row handed to predict.
LagFeature(f, lag) ==
    CASE lag = 1 -> f.lag1
      [] lag = 4 -> f.lag4
      [] lag = 24 -> f.lag24

\* C12: at every forecast step i (1-based here) the lag-L feature fed to the
\* regressor, for each L in {1, 4, 24}, is the target series' value L steps
\* before step i: row n + i - L of the history when i <= L, the value of
\* step i - L otherwise; and lag 1 takes the fresh prediction.
C12_LagsTrackSeries ==
    /\ \A i \in 1..Len(f_log.fed) : \A lag \in Lags :
          LagFeature(f_log.fed[i], lag) \in
             (IF i <= lag THEN {TargetAt(f_n + i - lag)}
              ELSE {f_log.out[i - lag], f_log.raw[i - lag]})
    /\ \A i \in 1..Len(f_log.lags) :
          f_log.lags[i][1] \in {f_log.out[i], f_log.raw[i]}

\* C13: in the inflow forecaster the value fed back into the lag state at
\* each step is the post-clamp value appended to the output, and every lag
\* value of the lag state is >= 0 at every step.
C13_LagsNonNegative ==
    f_agent = "inflow" =>
        /\ \A i \in 1..Len(f_log.lags) :
              /\ f_log.lags[i][1] = f_log.out[i]
              /\ \A lag \in Lags : f_log.lags[i][lag] >= 0
        /\ \A i \in 1..Len(f_log.fed) : \A lag \in Lags :
              LagFeature(f_log.fed[i], lag) >= 0
====
